---- MODULE Spec2Model ----
(***************************************************************************)
(* Model of MyDisjointSet (src/union-find.py): a union-find structure      *)
(* backed by two dictionaries, __HM__ (element -> parent) and __size__     *)
(* (element -> recorded subset size), with path halving in __getitem__     *)
(* and merge by recorded size in merge.                                    *)
(***************************************************************************)
EXTENDS Integers, Sequences, FiniteSets, Bags, TLC

\* Elements add is called with: 1..NumKeys.  The code compares elements only
\* for equality and walks its dictionaries in insertion order, so a run is
\* fixed, up to renaming, by the order of first insertion: the elements are
\* named by that order (the k-th element to be inserted is k).
NumKeys == 3
\* merge is not called once the recorded sizes would add up to more than this.
MaxSize == 4

Keys == 1..NumKeys
\* An element no add is ever called with: the argument of the failing calls.
Stranger == NumKeys + 1
Elems == Keys \cup {Stranger}

VARIABLES
    HM,       \* self.__HM__   : function, tracked element -> parent
    size,     \* self.__size__ : function, tracked element -> recorded size
    order,    \* insertion order of the keys of both dictionaries
    op,       \* the last completed call: its name,
    argx,     \*   its first argument,
    argy,     \*   its second argument,
    outcome,  \*   "ok" or "KeyError",
    ret,      \*   its return value,
    HM0,      \*   __HM__ as it was when the call started,
    size0,    \*   __size__ as it was when the call started
    ref,      \* the reference partition of the elements added so far
    thread,   \* the calls in progress in the unlocked runs, each with its
              \*   place and its locals: a bag
    overlapped  \* an add or a merge has been in progress together with
              \*   another call

vars == <<HM, size, order, op, argx, argy, outcome, ret, HM0, size0, ref,
          thread, overlapped>>

\* The two callers of the unlocked runs.
Threads == {"A", "B"}

\* A call that has set none of its locals: the second argument of a merge,
\* the locals of __getitem__ (a and b hold the two reads of line 64), and
\* the locals of merge.
NewCall == [pc |-> "begin", call |-> "none", y |-> 0, parent |-> 0, a |-> 0,
            b |-> 0, parent_x |-> 0, parent_y |-> 0, size_x |-> 0, size_y |-> 0]

\* Python's None: a value equal to no element (the elements are 1, 2, ...),
\* and one that an element can be compared with.
None == 0

----------------------------------------------------------------------------
\* The dictionaries as values: functions from their keys.

EmptyMap == [e \in {} |-> 0]

\* d[k] = v on a dictionary held as a function.
Store(d, k, v) == [e \in (DOMAIN d) \cup {k} |-> IF e = k THEN v ELSE d[e]]

----------------------------------------------------------------------------
\* __getitem__, lines 62-66: the path-halving loop from `parent`.
RECURSIVE getitemLoop(_, _)
getitemLoop(hm, parent) ==
    IF parent = hm[parent]
      THEN [HM |-> hm, ret |-> parent]
      ELSE LET hm1 == [hm EXCEPT ![parent] = hm[hm[parent]]]
           IN  getitemLoop(hm1, hm1[parent])

\* Mutant of getitem: returns x's parent without walking up to the root.
getitemParentOnly(hm, x) ==
    IF x \notin DOMAIN hm
      THEN [HM |-> hm, raised |-> TRUE, ret |-> None]
      ELSE [HM |-> hm, raised |-> FALSE, ret |-> hm[x]]

\* __getitem__(x): KeyError when x is no key, else the loop's result.
getitem(hm, x) ==
    IF x \notin DOMAIN hm
      THEN [HM |-> hm, raised |-> TRUE, ret |-> None]
      ELSE LET r == getitemLoop(hm, x)
           IN  [HM |-> r.HM, raised |-> FALSE, ret |-> r.ret]

\* Mutant of add: no test for x being a key already.
addNoCheck(hm, sz, ord, x) ==
    [HM |-> Store(hm, x, x), size |-> Store(sz, x, 1),
     order |-> IF x \in DOMAIN hm THEN ord ELSE Append(ord, x), ret |-> x]

\* add(x): nothing (returning None) when x is a key, else a new singleton.
add(hm, sz, ord, x) ==
    IF x \in DOMAIN hm
      THEN [HM |-> hm, size |-> sz, order |-> ord, ret |-> None]
      ELSE [HM |-> Store(hm, x, x), size |-> Store(sz, x, 1),
            order |-> Append(ord, x), ret |-> x]

\* Mutant of mergeLink: the first branch writes parent_x's own entry.
mergeLinkWrongKey(hm, sz, parent_x, parent_y) ==
    LET size_x == sz[parent_x]
        size_y == sz[parent_y]
    IN  IF size_x > size_y
          THEN [HM   |-> [hm EXCEPT ![parent_x] = parent_x],
                size |-> [sz EXCEPT ![parent_x] = size_x + size_y]]
          ELSE [HM   |-> [hm EXCEPT ![parent_x] = parent_y],
                size |-> [sz EXCEPT ![parent_y] = size_x + size_y]]

\* Mutant of mergeLink: >= for >, so that x's side wins the ties.
mergeLinkTieToX(hm, sz, parent_x, parent_y) ==
    LET size_x == sz[parent_x]
        size_y == sz[parent_y]
    IN  IF size_x >= size_y
          THEN [HM   |-> [hm EXCEPT ![parent_y] = parent_x],
                size |-> [sz EXCEPT ![parent_x] = size_x + size_y]]
          ELSE [HM   |-> [hm EXCEPT ![parent_x] = parent_y],
                size |-> [sz EXCEPT ![parent_y] = size_x + size_y]]

\* Mutant of mergeLink: the second branch leaves the size map alone.
mergeLinkNoSize(hm, sz, parent_x, parent_y) ==
    LET size_x == sz[parent_x]
        size_y == sz[parent_y]
    IN  IF size_x > size_y
          THEN [HM   |-> [hm EXCEPT ![parent_y] = parent_x],
                size |-> [sz EXCEPT ![parent_x] = size_x + size_y]]
          ELSE [HM   |-> [hm EXCEPT ![parent_x] = parent_y],
                size |-> sz]

\* merge, lines 79-86: link the two roots by recorded size.
mergeLink(hm, sz, parent_x, parent_y) ==
    LET size_x == sz[parent_x]
        size_y == sz[parent_y]
    IN  IF size_x > size_y
          THEN [HM   |-> [hm EXCEPT ![parent_y] = parent_x],
                size |-> [sz EXCEPT ![parent_x] = size_x + size_y]]
          ELSE [HM   |-> [hm EXCEPT ![parent_x] = parent_y],
                size |-> [sz EXCEPT ![parent_y] = size_x + size_y]]

\* Mutant of merge: links x and y themselves, not their roots.
mergeNoFind(hm, sz, x, y) ==
    IF x \notin DOMAIN hm \/ y \notin DOMAIN hm
      THEN [HM |-> hm, size |-> sz, raised |-> TRUE]
      ELSE LET l == mergeLink(hm, sz, x, y)
           IN  [HM |-> l.HM, size |-> l.size, raised |-> FALSE]

\* Mutant of merge: the absorbed root is pointed at the other argument, not
\* at the other argument's root.
mergeRootToArg(hm, sz, x, y) ==
    LET fx == getitem(hm, x)
    IN  IF fx.raised
          THEN [HM |-> fx.HM, size |-> sz, raised |-> TRUE]
          ELSE LET fy == getitem(fx.HM, y)
               IN  IF fy.raised
                     THEN [HM |-> fy.HM, size |-> sz, raised |-> TRUE]
                     ELSE LET size_x == sz[fx.ret]
                              size_y == sz[fy.ret]
                          IN  IF size_x > size_y
                                THEN [HM   |-> [fy.HM EXCEPT ![fy.ret] = x],
                                      size |-> [sz EXCEPT ![fx.ret] = size_x + size_y],
                                      raised |-> FALSE]
                                ELSE [HM   |-> [fy.HM EXCEPT ![fx.ret] = y],
                                      size |-> [sz EXCEPT ![fy.ret] = size_x + size_y],
                                      raised |-> FALSE]

\* merge(x, y): the two finds in turn, each able to raise, then the link.
merge(hm, sz, x, y) ==
    LET fx == getitem(hm, x)
    IN  IF fx.raised
          THEN [HM |-> fx.HM, size |-> sz, raised |-> TRUE]
          ELSE LET fy == getitem(fx.HM, y)
               IN  IF fy.raised
                     THEN [HM |-> fy.HM, size |-> sz, raised |-> TRUE]
                     ELSE LET l == mergeLink(fy.HM, sz, fx.ret, fy.ret)
                          IN  [HM |-> l.HM, size |-> l.size, raised |-> FALSE]

\* Mutant of connected: answers true for equal arguments before any find.
connectedShortcut(hm, x, y) ==
    IF x = y
      THEN [HM |-> hm, raised |-> FALSE, ret |-> TRUE]
      ELSE LET fx == getitem(hm, x)
           IN  IF fx.raised
                 THEN [HM |-> fx.HM, raised |-> TRUE, ret |-> None]
                 ELSE LET fy == getitem(fx.HM, y)
                      IN  IF fy.raised
                            THEN [HM |-> fy.HM, raised |-> TRUE, ret |-> None]
                            ELSE [HM |-> fy.HM, raised |-> FALSE,
                                  ret |-> (fx.ret = fy.ret)]

\* Mutant of connected: compares x's root with y, not with y's root.
connectedRootWithArg(hm, x, y) ==
    LET fx == getitem(hm, x)
    IN  IF fx.raised
          THEN [HM |-> fx.HM, raised |-> TRUE, ret |-> None]
          ELSE IF y \notin DOMAIN hm
                 THEN [HM |-> fx.HM, raised |-> TRUE, ret |-> None]
                 ELSE [HM |-> fx.HM, raised |-> FALSE, ret |-> (fx.ret = y)]

\* connected(x, y): the two finds in turn, then the comparison.
connected(hm, x, y) ==
    LET fx == getitem(hm, x)
    IN  IF fx.raised
          THEN [HM |-> fx.HM, raised |-> TRUE, ret |-> None]
          ELSE LET fy == getitem(fx.HM, y)
               IN  IF fy.raised
                     THEN [HM |-> fy.HM, raised |-> TRUE, ret |-> None]
                     ELSE [HM |-> fy.HM, raised |-> FALSE, ret |-> (fx.ret = fy.ret)]

\* Mutant of subsetScan: compares each key's parent, not its root, with
\* parent_x.
RECURSIVE subsetScanParent(_, _, _, _, _)
subsetScanParent(hm, ord, i, parent_x, subset_list) ==
    IF i > Len(ord)
      THEN [HM |-> hm, ret |-> subset_list]
      ELSE subsetScanParent(hm, ord, i + 1, parent_x,
                            IF hm[ord[i]] = parent_x
                              THEN Append(subset_list, ord[i])
                              ELSE subset_list)

\* subset, lines 95-98: the scan over the keys from position i on.
RECURSIVE subsetScan(_, _, _, _, _)
subsetScan(hm, ord, i, parent_x, subset_list) ==
    IF i > Len(ord)
      THEN [HM |-> hm, ret |-> subset_list]
      ELSE LET fe == getitem(hm, ord[i])
           IN  subsetScan(fe.HM, ord, i + 1, parent_x,
                          IF fe.ret = parent_x
                            THEN Append(subset_list, ord[i])
                            ELSE subset_list)

\* subset(x): find x, then scan every key.
subset(hm, ord, x) ==
    LET fx == getitem(hm, x)
    IN  IF fx.raised
          THEN [HM |-> fx.HM, raised |-> TRUE, ret |-> None]
          ELSE LET s == subsetScan(fx.HM, ord, 1, fx.ret, <<>>)
               IN  [HM |-> s.HM, raised |-> FALSE, ret |-> s.ret]

\* Mutant of subsetsScan: no test for the key being there already, so every
\* key starts its root's list again.
RECURSIVE subsetsScanReset(_, _, _, _)
subsetsScanReset(hm, ord, i, subset_dict) ==
    IF i > Len(ord)
      THEN [HM |-> hm, ret |-> subset_dict]
      ELSE LET fe == getitem(hm, ord[i])
               parent_e == fe.ret
               d1 == [keys |-> IF parent_e \in DOMAIN subset_dict.fn
                                 THEN subset_dict.keys
                                 ELSE Append(subset_dict.keys, parent_e),
                      fn   |-> Store(subset_dict.fn, parent_e, <<>>)]
               d2 == [keys |-> d1.keys,
                      fn   |-> [d1.fn EXCEPT ![parent_e] = Append(@, ord[i])]]
           IN  subsetsScanReset(fe.HM, ord, i + 1, d2)

\* subsets, lines 104-108: the scan over the keys from position i on;
\* subset_dict is held as its keys in insertion order and its mapping.
RECURSIVE subsetsScan(_, _, _, _)
subsetsScan(hm, ord, i, subset_dict) ==
    IF i > Len(ord)
      THEN [HM |-> hm, ret |-> subset_dict]
      ELSE LET fe == getitem(hm, ord[i])
               parent_e == fe.ret
               d1 == IF parent_e \notin DOMAIN subset_dict.fn
                       THEN [keys |-> Append(subset_dict.keys, parent_e),
                             fn   |-> Store(subset_dict.fn, parent_e, <<>>)]
                       ELSE subset_dict
               d2 == [keys |-> d1.keys,
                      fn   |-> [d1.fn EXCEPT ![parent_e] = Append(@, ord[i])]]
           IN  subsetsScan(fe.HM, ord, i + 1, d2)

\* subsets(): group every key under its root.
subsets(hm, ord) == subsetsScan(hm, ord, 1, [keys |-> <<>>, fn |-> EmptyMap])

----------------------------------------------------------------------------
\* The reference disjoint set the driver compares with: a set of classes.
RefAdd(p, x) == IF x \in UNION p THEN p ELSE p \cup {{x}}

RefMerge(p, x, y) ==
    LET cx == CHOOSE c \in p : x \in c
        cy == CHOOSE c \in p : y \in c
    IN  (p \ {cx, cy}) \cup {cx \cup cy}

----------------------------------------------------------------------------
\* MyDisjointSet(): two empty dictionaries.
Init ==
    /\ HM = EmptyMap
    /\ size = EmptyMap
    /\ order = <<>>
    /\ op = "init"
    /\ argx = 0
    /\ argy = 0
    /\ outcome = "ok"
    /\ ret = None
    /\ HM0 = EmptyMap
    /\ size0 = EmptyMap
    /\ ref = {}
    /\ thread = EmptyBag
    /\ overlapped = FALSE

\* The record of the call that has just completed, as one step of a single
\* caller.
Called(name, x, y, out, r) ==
    /\ UNCHANGED <<thread, overlapped>>
    /\ op' = name
    /\ argx' = x
    /\ argy' = y
    /\ outcome' = out
    /\ ret' = r
    /\ HM0' = HM
    /\ size0' = size

CallAdd(x) ==
    LET a == add(HM, size, order, x)
    IN  /\ HM' = a.HM
        /\ size' = a.size
        /\ order' = a.order
        /\ ref' = RefAdd(ref, x)
        /\ Called("add", x, 0, "ok", a.ret)

CallGetItem(x) ==
    LET f == getitem(HM, x)
    IN  /\ HM' = f.HM
        /\ UNCHANGED <<size, order, ref>>
        /\ Called("find", x, 0, IF f.raised THEN "KeyError" ELSE "ok", f.ret)

\* The sum merge would record, when both arguments are tracked.
MergeSum(x, y) ==
    LET fx == getitem(HM, x)
        fy == getitem(fx.HM, y)
    IN  size[fx.ret] + size[fy.ret]

CallMerge(x, y) ==
    /\ (x \in DOMAIN HM /\ y \in DOMAIN HM) => MergeSum(x, y) <= MaxSize
    /\ LET m == merge(HM, size, x, y)
       IN  /\ HM' = m.HM
           /\ size' = m.size
           /\ UNCHANGED order
           /\ ref' = IF m.raised THEN ref ELSE RefMerge(ref, x, y)
           /\ Called("merge", x, y, IF m.raised THEN "KeyError" ELSE "ok", None)

CallConnected(x, y) ==
    LET c == connected(HM, x, y)
    IN  /\ HM' = c.HM
        /\ UNCHANGED <<size, order, ref>>
        /\ Called("connected", x, y, IF c.raised THEN "KeyError" ELSE "ok", c.ret)

CallSubset(x) ==
    LET s == subset(HM, order, x)
    IN  /\ HM' = s.HM
        /\ UNCHANGED <<size, order, ref>>
        /\ Called("subset", x, 0, IF s.raised THEN "KeyError" ELSE "ok", s.ret)

CallSubsets ==
    LET s == subsets(HM, order)
    IN  /\ HM' = s.HM
        /\ UNCHANGED <<size, order, ref>>
        /\ Called("subsets", 0, 0, "ok", s.ret)

Next ==
    \/ \E x \in Keys : x <= Len(order) + 1 /\ CallAdd(x)
    \/ \E x \in Elems : CallGetItem(x)
    \/ \E x \in Elems, y \in Elems : CallMerge(x, y)
    \/ \E x \in Elems, y \in Elems : CallConnected(x, y)
    \/ \E x \in Elems : CallSubset(x)
    \/ CallSubsets

Spec == Init /\ [][Next]_vars

----------------------------------------------------------------------------
\* Two callers without a lock.  Each runs calls of add, __getitem__ and
\* merge one after the other, and every access of a call to __HM__ or
\* __size__ (a membership test, a read, a store) is a step of its own, so
\* that the other caller can run between any two of them.  The code tells
\* no caller from another: the state holds the calls in progress, as a bag.

history == <<op, argx, argy, outcome, ret, HM0, size0>>

\* The calls in progress.
InProgress == BagToSet(thread)

\* A caller is free to begin a call.
CallerFree == BagCardinality(thread) < Cardinality(Threads)

\* The bag with the new call in it; with call s gone on to s2; with call s
\* over.
Begin(s) == thread (+) SetToBag({s})

Goes(s, s2) == (thread (-) SetToBag({s})) (+) SetToBag({s2})

Ends(s) == thread (-) SetToBag({s})

\* The largest recorded size, 0 for an empty __size__.
MaxRecorded ==
    IF DOMAIN size = {}
      THEN 0
      ELSE CHOOSE m \in {size[k] : k \in DOMAIN size} :
              \A k \in DOMAIN size : size[k] <= m

\* A merge doubles a recorded size at most, and two merges in progress
\* together at most double it twice: a merge is begun only while that stays
\* within MaxSize.
SizeRoom ==
    (IF \E s \in InProgress : s.call = "merge" THEN 4 ELSE 2) * MaxRecorded
       <= MaxSize

\* A call is beginning, of add or merge where `writer` is true and of find
\* where it is false: whether an add or a merge is now in progress together
\* with another call.
Overlaps(writer) ==
    \E s \in InProgress : writer \/ s.call \in {"add", "merge"}

\* Line 69: the membership test of add(x); line 70 returns when x is a key.
AddStart(x) ==
    /\ CallerFree
    /\ thread' = IF x \in DOMAIN HM
                   THEN thread
                   ELSE Begin([NewCall EXCEPT !.pc = "addHM", !.call = "add",
                                              !.parent = x])
    /\ overlapped' = (overlapped \/ (x \notin DOMAIN HM /\ Overlaps(TRUE)))
    /\ UNCHANGED <<HM, size, order, ref, history>>

\* Line 71: self.__HM__[x] = x; a key that is new goes to the end of the
\* dictionary's order.
AddStoreHM(s) ==
    /\ s.pc = "addHM"
    /\ HM' = Store(HM, s.parent, s.parent)
    /\ order' = IF s.parent \in DOMAIN HM THEN order
                                         ELSE Append(order, s.parent)
    /\ thread' = Goes(s, [s EXCEPT !.pc = "addSize"])
    /\ UNCHANGED <<size, ref, history, overlapped>>

\* Line 72: self.__size__[x] = 1.
AddStoreSize(s) ==
    /\ s.pc = "addSize"
    /\ size' = Store(size, s.parent, 1)
    /\ thread' = Goes(s, [s EXCEPT !.pc = "addRet"])
    /\ UNCHANGED <<HM, order, ref, history, overlapped>>

\* Line 73: the read of self.__HM__[x] that add returns.
AddReturn(s) ==
    /\ s.pc = "addRet"
    /\ thread' = Ends(s)
    /\ UNCHANGED <<HM, size, order, ref, history, overlapped>>

\* Mutant of halve: subscript and value the other way round.
halveSwapped(hm, parent, grand) == [hm EXCEPT ![grand] = parent]

\* Line 64, the store: self.__HM__[parent] = <the grandparent read>.
halve(hm, parent, grand) == [hm EXCEPT ![parent] = grand]

\* Lines 60-62 of a find(x) call: the membership test, KeyError (the call
\* is over) or parent = x.
FindStart(x) ==
    /\ CallerFree
    /\ thread' = IF x \notin DOMAIN HM
                   THEN thread
                   ELSE Begin([NewCall EXCEPT !.pc = "test", !.call = "find",
                                              !.parent = x])
    /\ overlapped' = (overlapped \/ (x \in DOMAIN HM /\ Overlaps(FALSE)))
    /\ UNCHANGED <<HM, size, order, ref, history>>

\* Line 63: the loop test reads __HM__[parent]; line 66 returns parent, to
\* the caller of find, or to merge as parent_x (line 76) or parent_y
\* (line 77).
FindTest(s) ==
    /\ s.pc = "test"
    /\ thread' =
          IF s.parent # HM[s.parent]
            THEN Goes(s, [s EXCEPT !.pc = "read1"])
          ELSE IF s.call = "find"
            THEN Ends(s)
          ELSE IF s.parent_x = 0
            THEN Goes(s, [s EXCEPT !.pc = "findY", !.parent_x = s.parent,
                                   !.parent = 0])
            ELSE Goes(s, [s EXCEPT !.pc = "readSizeX", !.parent_y = s.parent,
                                   !.parent = 0])
    /\ UNCHANGED <<HM, size, order, ref, history, overlapped>>

\* Line 64, the inner read: self.__HM__[parent].
FindRead1(s) ==
    /\ s.pc = "read1"
    /\ thread' = Goes(s, [s EXCEPT !.pc = "read2", !.a = HM[s.parent]])
    /\ UNCHANGED <<HM, size, order, ref, history, overlapped>>

\* Line 64, the outer read: self.__HM__[self.__HM__[parent]]; the value of
\* the inner read is used up.
FindRead2(s) ==
    /\ s.pc = "read2"
    /\ thread' = Goes(s, [s EXCEPT !.pc = "write", !.a = 0, !.b = HM[s.a]])
    /\ UNCHANGED <<HM, size, order, ref, history, overlapped>>

\* Line 64, the store.
FindWrite(s) ==
    /\ s.pc = "write"
    /\ HM' = halve(HM, s.parent, s.b)
    /\ thread' = Goes(s, [s EXCEPT !.pc = "advance", !.b = 0])
    /\ UNCHANGED <<size, order, ref, history, overlapped>>

\* Line 65: parent = self.__HM__[parent].
FindAdvance(s) ==
    /\ s.pc = "advance"
    /\ thread' = Goes(s, [s EXCEPT !.pc = "test", !.parent = HM[s.parent]])
    /\ UNCHANGED <<HM, size, order, ref, history, overlapped>>

\* Line 76 of a merge(x, y) call, as far as the membership test of
\* __getitem__(x): KeyError (the call is over) or parent = x.
MergeStart(x, y) ==
    /\ CallerFree
    /\ SizeRoom
    /\ thread' = IF x \notin DOMAIN HM
                   THEN thread
                   ELSE Begin([NewCall EXCEPT !.pc = "test", !.call = "merge",
                                              !.parent = x, !.y = y])
    /\ overlapped' = (overlapped \/ (x \in DOMAIN HM /\ Overlaps(TRUE)))
    /\ UNCHANGED <<HM, size, order, ref, history>>

\* Line 77, as far as the membership test of __getitem__(y).
MergeFindY(s) ==
    /\ s.pc = "findY"
    /\ thread' = IF s.y \notin DOMAIN HM
                   THEN Ends(s)
                   ELSE Goes(s, [s EXCEPT !.pc = "test", !.parent = s.y,
                                          !.y = 0])
    /\ UNCHANGED <<HM, size, order, ref, history, overlapped>>

\* Line 79: size_x = self.__size__[parent_x], KeyError when an add has
\* stored parent_x in __HM__ and not yet in __size__.
MergeReadSizeX(s) ==
    /\ s.pc = "readSizeX"
    /\ thread' = IF s.parent_x \notin DOMAIN size
                   THEN Ends(s)
                   ELSE Goes(s, [s EXCEPT !.pc = "readSizeY",
                                          !.size_x = size[s.parent_x]])
    /\ UNCHANGED <<HM, size, order, ref, history, overlapped>>

\* Line 80: size_y = self.__size__[parent_y], KeyError likewise.
MergeReadSizeY(s) ==
    /\ s.pc = "readSizeY"
    /\ thread' = IF s.parent_y \notin DOMAIN size
                   THEN Ends(s)
                   ELSE Goes(s, [s EXCEPT !.pc = "storeHM",
                                          !.size_y = size[s.parent_y]])
    /\ UNCHANGED <<HM, size, order, ref, history, overlapped>>

\* Line 81, then the store of line 82 or of line 85; the root that was
\* linked is not used again.
MergeStoreHM(s) ==
    /\ s.pc = "storeHM"
    /\ HM' = IF s.size_x > s.size_y
               THEN [HM EXCEPT ![s.parent_y] = s.parent_x]
               ELSE [HM EXCEPT ![s.parent_x] = s.parent_y]
    /\ thread' = IF s.size_x > s.size_y
                   THEN Goes(s, [s EXCEPT !.pc = "storeSize", !.parent_y = 0])
                   ELSE Goes(s, [s EXCEPT !.pc = "storeSize", !.parent_x = 0])
    /\ UNCHANGED <<size, order, ref, history, overlapped>>

\* The store of line 83 or of line 86; the call is over.
MergeStoreSize(s) ==
    /\ s.pc = "storeSize"
    /\ size' = IF s.size_x > s.size_y
                 THEN [size EXCEPT ![s.parent_x] = s.size_x + s.size_y]
                 ELSE [size EXCEPT ![s.parent_y] = s.size_x + s.size_y]
    /\ thread' = Ends(s)
    /\ UNCHANGED <<HM, order, ref, history, overlapped>>

\* One step: a caller that is in no call begins one, or a call in progress
\* makes its next access.
NextConc ==
    \/ \E x \in Keys : x <= Len(order) + 1 /\ AddStart(x)
    \/ \E s \in InProgress : AddStoreHM(s)
    \/ \E s \in InProgress : AddStoreSize(s)
    \/ \E s \in InProgress : AddReturn(s)
    \/ \E x \in Elems : FindStart(x)
    \/ \E s \in InProgress : FindTest(s)
    \/ \E s \in InProgress : FindRead1(s)
    \/ \E s \in InProgress : FindRead2(s)
    \/ \E s \in InProgress : FindWrite(s)
    \/ \E s \in InProgress : FindAdvance(s)
    \/ \E x \in Elems, y \in Elems : MergeStart(x, y)
    \/ \E s \in InProgress : MergeFindY(s)
    \/ \E s \in InProgress : MergeReadSizeX(s)
    \/ \E s \in InProgress : MergeReadSizeY(s)
    \/ \E s \in InProgress : MergeStoreHM(s)
    \/ \E s \in InProgress : MergeStoreSize(s)

\* The callers do not all stop for good while one of them can take a step.
SpecConc ==
    /\ Init
    /\ [][NextConc]_vars
    /\ WF_vars(NextConc)

----------------------------------------------------------------------------
\* What the properties speak of, read off a parent map without changing it.

\* The element n parent links up from e.
RECURSIVE Follow(_, _, _)
Follow(hm, e, n) == IF n = 0 THEN e ELSE Follow(hm, hm[e], n - 1)

\* Where the links from e end, when they end: no path without a repeated
\* element is longer than the number of keys.
RootOf(hm, e) == Follow(hm, e, Cardinality(DOMAIN hm))

Roots(hm) == {e \in DOMAIN hm : hm[e] = e}

Members(hm, r) == {e \in DOMAIN hm : RootOf(hm, e) = r}

\* The number of parent links between e and its root.
RECURSIVE Depth(_, _)
Depth(hm, e) == IF hm[e] = e THEN 0 ELSE 1 + Depth(hm, hm[e])

\* Every element has the root it had in HM0.
SameRoots == \A e \in DOMAIN HM0 : RootOf(HM, e) = RootOf(HM0, e)

\* The elements of a list, and the groups of a subsets() result.
Range(s) == {s[i] : i \in 1..Len(s)}

Groups(d) == {Range(d.fn[k]) : k \in DOMAIN d.fn}

Tracked0(x) == x \in DOMAIN HM0

----------------------------------------------------------------------------
\* C1: after every completed call, the recorded size of every root equals the
\* number of tracked elements whose root it is.
SizeConservation ==
    \A r \in Roots(HM) : size[r] = Cardinality(Members(HM, r))

\* C2: the parent links from every tracked element stay among the tracked
\* elements and end, within as many steps as there are elements, at an
\* element that is its own parent.
Acyclicity ==
    /\ \A e \in DOMAIN HM : HM[e] \in DOMAIN HM
    /\ \A e \in DOMAIN HM : RootOf(HM, e) \in Roots(HM)

\* C2 happens: a merge has built a path of two links.
AcyclicityWitness ==
    /\ op = "merge"
    /\ outcome = "ok"
    /\ \E e \in DOMAIN HM : HM[e] # e /\ HM[HM[e]] # HM[e]

\* C3: a merge of two tracked elements that already share a root changes no
\* element's root and leaves the size map as it was.
MergeSameRootNoOp ==
    (/\ op = "merge"
     /\ outcome = "ok"
     /\ RootOf(HM0, argx) = RootOf(HM0, argy))
    => (SameRoots /\ size = size0)

\* C4: after merge(x, y) the code's connected(x, y) answers true, and the
\* number of roots is one less than before when x and y had different roots,
\* and the same when they had the same root.
MergeMonotonicity ==
    (op = "merge" /\ outcome = "ok")
    => /\ connected(HM, argx, argy).ret = TRUE
       /\ Cardinality(Roots(HM)) =
             IF RootOf(HM0, argx) = RootOf(HM0, argy)
               THEN Cardinality(Roots(HM0))
               ELSE Cardinality(Roots(HM0)) - 1

\* C4 happens: a merge has joined two subsets, the first of them of more
\* than one element.
MergeMonotonicityWitness ==
    /\ op = "merge"
    /\ outcome = "ok"
    /\ RootOf(HM0, argx) # RootOf(HM0, argy)
    /\ HM0[argx] # argx

\* C5: the groups subsets() returns are the classes of the reference
\* partition, which starts every added element as a singleton and unites the
\* classes of x and y on merge(x, y).
AgreesWithReference ==
    LET d == subsets(HM, order).ret
    IN  /\ Groups(d) = ref
        /\ Len(d.keys) = Cardinality(ref)

\* C5 happens: after merges the reference has a class of several elements
\* next to another class.
AgreesWithReferenceWitness ==
    /\ op = "merge"
    /\ Cardinality(ref) = 2
    /\ \E c \in ref : Cardinality(c) = 2

\* C6: a call that ends in KeyError leaves both maps as they were.
UnchangedOnError ==
    outcome = "KeyError" => (HM = HM0 /\ size = size0)

\* C7: find, merge, connected and subset end in KeyError exactly when one of
\* their arguments is not tracked; add never does; no call but add changes
\* the set of tracked elements, and add adds its argument alone.
NotFoundExactly ==
    /\ op \in {"find", "subset"} =>
          (outcome = "KeyError" <=> ~Tracked0(argx))
    /\ op \in {"merge", "connected"} =>
          (outcome = "KeyError" <=> (~Tracked0(argx) \/ ~Tracked0(argy)))
    /\ op \in {"add", "subsets"} => outcome = "ok"
    /\ op # "add" => (DOMAIN HM = DOMAIN HM0 /\ DOMAIN size = DOMAIN size0)
    /\ op = "add" => DOMAIN HM = DOMAIN HM0 \cup {argx}

\* C7 happens: a two-argument call whose first argument is tracked and whose
\* second is not has ended in KeyError.
NotFoundExactlyWitness ==
    /\ op \in {"merge", "connected"}
    /\ Tracked0(argx)
    /\ ~Tracked0(argy)
    /\ outcome = "KeyError"

\* C8: find(x) on a tracked x returns the element the parent links from x
\* led to before the call; find, connected, subset and subsets change no
\* element's root and no entry of the size map.
FindFrame ==
    /\ (op = "find" /\ outcome = "ok") =>
          (ret = RootOf(HM0, argx) /\ HM0[ret] = ret)
    /\ op \in {"find", "connected", "subset", "subsets"} =>
          (SameRoots /\ Roots(HM) = Roots(HM0) /\ size = size0)

\* C8 happens: a find has rewritten a parent link.
FindFrameWitness ==
    /\ op = "find"
    /\ outcome = "ok"
    /\ HM # HM0

\* C9: add(x) on an untracked x adds the entries parent[x] = x and
\* size[x] = 1 and changes no other; add(x) on a tracked x changes nothing.
IdempotentAdd ==
    op = "add" =>
       IF Tracked0(argx)
         THEN HM = HM0 /\ size = size0
         ELSE /\ HM = Store(HM0, argx, argx)
              /\ size = Store(size0, argx, 1)
              /\ DOMAIN HM = DOMAIN HM0 \cup {argx}

\* C9 happens: add has been called on a tracked element that is no root.
IdempotentAddWitness ==
    /\ op = "add"
    /\ Tracked0(argx)
    /\ HM0[argx] # argx

\* C10: merge(x, x) on a tracked x changes no element's root, so neither the
\* number of subsets nor any subset's members; and while x is the only
\* element, subsets() is the one group [x] under the key x.
IdempotentSelfMerge ==
    /\ (op = "merge" /\ outcome = "ok" /\ argx = argy) =>
          (SameRoots /\ Roots(HM) = Roots(HM0))
    /\ DOMAIN HM = {1} =>
          subsets(HM, order).ret = [keys |-> <<1>>, fn |-> Store(EmptyMap, 1, <<1>>)]

\* C10 happens: merge(x, x) has been called on an element that is no root,
\* after an earlier self-merge has doubled a recorded size.
IdempotentSelfMergeWitness ==
    /\ op = "merge"
    /\ outcome = "ok"
    /\ argx = argy
    /\ HM0[argx] # argx
    /\ \E r \in Roots(HM0) : size0[r] > Cardinality(Members(HM0, r))

\* The parent map as the two finds of merge or connected leave it.
AfterFinds0 == getitem(getitem(HM0, argx).HM, argy).HM

\* C11: a merge of two elements with different roots rootX and rootY makes
\* rootX the root of both when the recorded size of rootX is the larger, and
\* rootY otherwise, ties included; the new root's recorded size is the sum of
\* the two recorded before, and the only parent entry that differs from what
\* the two finds left is the absorbed root's.
MergeDirection ==
    (/\ op = "merge"
     /\ outcome = "ok"
     /\ RootOf(HM0, argx) # RootOf(HM0, argy))
    => LET rootX == RootOf(HM0, argx)
           rootY == RootOf(HM0, argy)
           new   == IF size0[rootX] > size0[rootY] THEN rootX ELSE rootY
           old   == IF size0[rootX] > size0[rootY] THEN rootY ELSE rootX
       IN  /\ RootOf(HM, argx) = new
           /\ RootOf(HM, argy) = new
           /\ HM[new] = new
           /\ HM[old] = new
           /\ size[new] = size0[rootX] + size0[rootY]
           /\ \A e \in DOMAIN HM \ {old} : HM[e] = AfterFinds0[e]

\* C11 happens: a merge has joined two subsets of equal recorded size, the
\* first argument being no root.
MergeDirectionWitness ==
    /\ op = "merge"
    /\ outcome = "ok"
    /\ RootOf(HM0, argx) # RootOf(HM0, argy)
    /\ size0[RootOf(HM0, argx)] = size0[RootOf(HM0, argy)]
    /\ HM0[argx] # argx

\* How many times e stands in the list s.
Count(s, e) == Cardinality({i \in 1..Len(s) : s[i] = e})

\* C12: the keys of the mapping subsets() returns are the current roots, each
\* once; the lists of two different keys share no element; every tracked
\* element stands once in the list under its own root and in no other.
SubsetsDisjointCover ==
    LET d == subsets(HM, order).ret
    IN  /\ Range(d.keys) = Roots(HM)
        /\ DOMAIN d.fn = Roots(HM)
        /\ Len(d.keys) = Cardinality(Roots(HM))
        /\ \A k1 \in DOMAIN d.fn : \A k2 \in DOMAIN d.fn :
              k1 # k2 => Range(d.fn[k1]) \cap Range(d.fn[k2]) = {}
        /\ \A e \in DOMAIN HM : \A k \in DOMAIN d.fn :
              Count(d.fn[k], e) = IF k = RootOf(HM, e) THEN 1 ELSE 0
        /\ \A k \in DOMAIN d.fn : Range(d.fn[k]) \subseteq DOMAIN HM

\* C12 happens: after add a, add b, merge(a, b), add c the call subsets()
\* has returned the two groups [a, b] and [c].
SubsetsDisjointCoverWitness ==
    /\ op = "subsets"
    /\ DOMAIN HM = {1, 2, 3}
    /\ Len(ret.keys) = 2
    /\ \E k \in DOMAIN ret.fn : ret.fn[k] = <<1, 2>>
    /\ \E k \in DOMAIN ret.fn : ret.fn[k] = <<3>>

\* C13: subset(x) on a tracked x returns, each once, exactly the tracked
\* elements that have x's root, x among them, and its contents are those of
\* the list subsets() holds under that root in the same state.
SubsetContents ==
    (op = "subset" /\ outcome = "ok")
    => LET r == RootOf(HM0, argx)
       IN  /\ Range(ret) = Members(HM0, r)
           /\ \A e \in Range(ret) : Count(ret, e) = 1
           /\ argx \in Range(ret)
           /\ Range(ret) = Range(subsets(HM0, order).ret.fn[r])
           /\ Range(ret) = Range(subsets(HM, order).ret.fn[r])

\* C13 happens: subset has been called on an element two links from its
\* root and has returned the three elements of its subset.
SubsetContentsWitness ==
    /\ op = "subset"
    /\ outcome = "ok"
    /\ HM0[argx] # argx
    /\ HM0[HM0[argx]] # HM0[argx]
    /\ Len(ret) = 3

\* C14: in every state, for all tracked x, y and z, with each query run on
\* the parent map the query before it left: connected(x, x) is true;
\* connected(x, y) and then connected(y, x) give the same answer; and when
\* connected(x, y) and then connected(y, z) are true, connected(x, z), run
\* after them, is true.
ConnectedEquivalence ==
    \A x \in DOMAIN HM : \A y \in DOMAIN HM : \A z \in DOMAIN HM :
       LET xx == connected(HM, x, x)
           xy == connected(HM, x, y)
           yx == connected(xy.HM, y, x)
           yz == connected(xy.HM, y, z)
           xz == connected(yz.HM, x, z)
       IN  /\ xx.ret = TRUE
           /\ xy.ret = yx.ret
           /\ (xy.ret /\ yz.ret) => xz.ret

\* C14 happens: connected has answered true for two different elements of
\* the one subset there is and has rewritten a parent link on the way.
ConnectedEquivalenceWitness ==
    /\ op = "connected"
    /\ outcome = "ok"
    /\ argx # argy
    /\ ret = TRUE
    /\ HM # HM0
    /\ Cardinality(Roots(HM)) = 1

\* C15: every call of add(x) returns x, whether x was tracked before or not.
AddReturnsElement ==
    op = "add" => ret = argx

\* C15 as the code has it: add(x) returns x when it inserts x, and None when
\* x was tracked already.
AddReturnsElementOrNone ==
    op = "add" => ret = IF Tracked0(argx) THEN None ELSE argx

\* C16: when a merge joins two different subsets, the root of the one with
\* fewer members is put under the root of the one with more members, and
\* rootX under rootY when both have equally many.
UnionByTrueSize ==
    (/\ op = "merge"
     /\ outcome = "ok"
     /\ RootOf(HM0, argx) # RootOf(HM0, argy))
    => LET rootX == RootOf(HM0, argx)
           rootY == RootOf(HM0, argy)
           nx    == Cardinality(Members(HM0, rootX))
           ny    == Cardinality(Members(HM0, rootY))
       IN  IF nx > ny
             THEN HM[rootY] = rootX /\ HM[rootX] = rootX
             ELSE HM[rootX] = rootY /\ HM[rootY] = rootY

\* The whole part of the base-2 logarithm of n >= 1.
RECURSIVE FloorLog2(_)
FloorLog2(n) == IF n <= 1 THEN 0 ELSE 1 + FloorLog2(n \div 2)

\* C17: every tracked element is at most floor(log2(n)) parent links from
\* its root, n being the number of elements of its subset.
LogarithmicDepth ==
    \A e \in DOMAIN HM :
       Depth(HM, e) <= FloorLog2(Cardinality(Members(HM, RootOf(HM, e))))

\* C18: in every step (HM0 is the parent map the last call started from, HM
\* the one it left) no tracked element is lost, no call but add raises the
\* number of subsets, and two elements that had the same root before the
\* call have the same root after it; so what is connected once is connected
\* in every later state.
PartitionCoarsens ==
    /\ DOMAIN HM0 \subseteq DOMAIN HM
    /\ op # "add" => Cardinality(Roots(HM)) <= Cardinality(Roots(HM0))
    /\ \A a \in DOMAIN HM0 : \A b \in DOMAIN HM0 :
          RootOf(HM0, a) = RootOf(HM0, b) => RootOf(HM, a) = RootOf(HM, b)

\* C18 happens: a merge has joined a subset of two elements with another
\* subset, leaving fewer subsets than before.
PartitionCoarsensWitness ==
    /\ op = "merge"
    /\ outcome = "ok"
    /\ Cardinality(Roots(HM)) < Cardinality(Roots(HM0))
    /\ \E a \in DOMAIN HM0 : \E b \in DOMAIN HM0 :
          a # b /\ RootOf(HM0, a) = RootOf(HM0, b)

\* C20: the two maps have the same keys, and the recorded size of every root
\* is a positive integer not below the number of elements the root has.
SizeNeverUndercounts ==
    /\ DOMAIN size = DOMAIN HM
    /\ \A r \in Roots(HM) :
          /\ size[r] \in Nat \ {0}
          /\ size[r] >= Cardinality(Members(HM, r))

\* C20 happens: a merge has left a root of several elements whose recorded
\* size is above their number.
SizeNeverUndercountsWitness ==
    /\ op = "merge"
    /\ outcome = "ok"
    /\ \E r \in Roots(HM) :
          /\ Cardinality(Members(HM, r)) >= 2
          /\ size[r] > Cardinality(Members(HM, r))

\* An element that is not its own parent and that its parent links lead
\* back to.
ParentCycle ==
    \E e \in DOMAIN HM :
       /\ HM[e] # e
       /\ \/ HM[e] \notin DOMAIN HM
          \/ \E n \in 1..Cardinality(DOMAIN HM) : Follow(HM, e, n) = e

\* C19: two callers running finds with their reads and writes of parent
\* entries interleaved, and every add and merge run with no other call in
\* progress, get the parent map into a cycle that is no root's self-loop.
InterleavedFindsCorrupt == <>(ParentCycle /\ ~overlapped)

\* C19 as the code has it: whatever the interleaving of the callers' finds,
\* the parent map has no cycle other than a root's self-loop for as long as
\* every add and every merge has run with no other call in progress; a
\* cycle takes an add or a merge that overlaps another call.
InterleavedFindsAcyclic == overlapped \/ ~ParentCycle

\* C19 happens: with every add and merge so far run on its own, two finds
\* are in progress, and one of them holds the parent it read at line 64
\* after the other has rewritten that entry: it halves with a stale read.
InterleavedFindsWitness ==
    /\ ~overlapped
    /\ BagCardinality(thread) = Cardinality(Threads)
    /\ \A s \in InProgress : s.call = "find"
    /\ \E s \in InProgress :
          /\ s.pc = "read2"
          /\ HM[s.parent] # s.a

\* An add or a merge that overlaps another call does get the parent map
\* into a cycle: two merges of two singletons, each the other way round.
OverlappedMergesCycle ==
    /\ overlapped
    /\ \E e \in DOMAIN HM : HM[e] # e /\ HM[HM[e]] = e

====
